---------------------------- MODULE Spec2Model ----------------------------
(***************************************************************************)
(* Model of the analysis core of the differential-privacy validator:       *)
(* validator-rust/src/components/count.rs (the Count component: property   *)
(* propagation, graph expansion, sensitivity derivation) and               *)
(* validator-rust/src/components/mod.rs (the Variant dispatcher).          *)
(*                                                                         *)
(* Rust values are rendered as follows.                                    *)
(*   Option<T>      None is <<>>, Some(x) is <<x>>                         *)
(*   Result<T>      [ok |-> TRUE, val |-> x, err |-> <<>>] or              *)
(*                  [ok |-> FALSE, val |-> <<>>, err |-> message parts];   *)
(*                  a message built by format! is the sequence of its      *)
(*                  parts, so that the values it interpolates stay visible *)
(*   HashMap<K, V>  a function whose DOMAIN is the key set                 *)
(*   Vec<T>         a sequence                                             *)
(***************************************************************************)
EXTENDS Integers, Sequences, FiniteSets, TLC

VARIABLES properties, call, result, graph, releases, allocated

vars == <<properties, call, result, graph, releases, allocated>>

---------------------------------------------------------------------------
(* Bounds of the model *)

MaxRecords == 2
MaxColumns == 2
MaxCatColumns == 2
MaxCatLen == 3
MaxK == 2
MaxId == 7

---------------------------------------------------------------------------
(* Option and Result *)

None == <<>>
Some(x) == <<x>>
IsSome(o) == o # <<>>
Unwrap(o) == o[1]

Ok(x) == [ok |-> TRUE, val |-> x, err |-> <<>>]
Err(parts) == [ok |-> FALSE, val |-> <<>>, err |-> parts]

\* prepend(text): map_err closure that puts `text` in front of a message
prepend(text, r) == IF r.ok THEN r ELSE Err(<<text>> \o r.err)

EmptyMap == <<>>

---------------------------------------------------------------------------
(* The property model (base.rs) *)

\* one column of a Vector2DJagged: None, or the list of its categories.
\* The n categories of column j are the values 10*j + 1 .. 10*j + n.
CategoryList(j, n) == [i \in 1..n |-> 10 * j + i]

ColumnChoices == {None} \cup {Some(n) : n \in 0..MaxCatLen}

JaggedShapes == UNION {[1..c -> ColumnChoices] : c \in 0..MaxCatColumns}

Vector2DJagged(shape) ==
    [j \in 1..Len(shape) |->
        IF IsSome(shape[j]) THEN Some(CategoryList(j, Unwrap(shape[j]))) ELSE None]

\* the categories of a property: unknown (None) or a known Vector2DJagged
CategoriesSet == {None} \cup {Some(Vector2DJagged(s)) : s \in JaggedShapes}

NatureContinuous(min, max) == [kind |-> "Continuous", min |-> min, max |-> max]

\* natures an input may carry: unknown, or continuous bounds of one column
InputNatures == {None, Some(NatureContinuous(<<Some(-5)>>, <<Some(5)>>))}

DataTypes == {"Bool", "I64", "F64", "Str"}

\* the provenance an already aggregated input carries
UpstreamAggregator == [component |-> [variant |-> "Sum"], properties |-> EmptyMap]

ArrayNDPropertiesSet ==
    [variant : {"arraynd"},
     num_records : {None} \cup {Some(n) : n \in 1..MaxRecords},
     num_columns : {None} \cup {Some(n) : n \in 0..MaxColumns},
     categories : CategoriesSet,
     nature : InputNatures,
     data_type : DataTypes,
     aggregator : {None, Some(UpstreamAggregator)}]

\* a ValueProperties that is not an array (get_arraynd fails on it)
HashmapProperties ==
    [variant |-> "hashmap", num_records |-> None, num_columns |-> None,
     categories |-> None, nature |-> None, data_type |-> "Str",
     aggregator |-> None]

ValuePropertiesSet == ArrayNDPropertiesSet \cup {HashmapProperties}

\* NodeProperties: argument name -> properties of the node wired to it
NodePropertiesSet == {EmptyMap} \cup {("data" :> p) : p \in ValuePropertiesSet}

get_arraynd(p) ==
    IF p.variant = "arraynd" THEN Ok(p) ELSE Err(<<"value must be an array">>)

get_categories(p) ==
    IF IsSome(p.categories) THEN Ok(Unwrap(p.categories))
    ELSE Err(<<"categories is not defined">>)

get_num_columns(p) ==
    IF IsSome(p.num_columns) THEN Ok(Unwrap(p.num_columns))
    ELSE Err(<<"number of columns is not defined">>)

assert_is_not_aggregated(p) ==
    IF IsSome(p.aggregator) THEN Err(<<"aggregated data may not be manipulated">>)
    ELSE Ok(<<>>)

\* Vector2DJagged::get_num_columns
jagged_num_columns(jagged) == Len(jagged)

\* Vector2DJagged::get_lengths_option: per column, the number of categories
get_lengths_option(jagged) ==
    [j \in 1..Len(jagged) |->
        IF IsSome(jagged[j]) THEN Some(Len(Unwrap(jagged[j]))) ELSE None]

\* Vector2DJagged::get_lengths: fails unless every column is defined
get_lengths(jagged) ==
    IF \A j \in 1..Len(jagged) : IsSome(jagged[j])
    THEN Ok([j \in 1..Len(jagged) |-> Len(Unwrap(jagged[j]))])
    ELSE Err(<<"length is not defined for every column">>)

---------------------------------------------------------------------------
(* impl Component for proto::Count *)

CountVariant == [variant |-> "Count"]

AggregatorProperties(component, props) ==
    [component |-> component, properties |-> props]

\* mutation: the snapshot is taken of the rewritten data property
CountSnapshot_Rewritten(self, data_property, props) ==
    AggregatorProperties(self, ("data" :> data_property))

\* lines 38-42: the snapshot of the state when aggregating
CountSnapshot(self, data_property, props) ==
    AggregatorProperties(self, props)

\* mutation: num_records is the number of category columns
CountResolveRecords_Columns(data_property) ==
    LET categories == get_categories(data_property) IN
    IF categories.ok
    THEN IF jagged_num_columns(categories.val) # 1
         THEN Err(<<"categories must contain only one column">>)
         ELSE LET lengths == get_lengths(categories.val) IN
              IF ~lengths.ok THEN Err(lengths.err)
              ELSE Ok([data_property EXCEPT
                       !.num_records = Some(jagged_num_columns(categories.val))])
    ELSE Ok([data_property EXCEPT !.num_records = Some(1),
                                  !.num_columns = Some(1)])

\* lines 25-36: num_records (and num_columns) of a count
CountResolveRecords(data_property) ==
    LET categories == get_categories(data_property) IN
    IF categories.ok
    THEN IF jagged_num_columns(categories.val) # 1
         THEN Err(<<"categories must contain only one column">>)
         ELSE LET lengths == get_lengths(categories.val) IN
              IF ~lengths.ok THEN Err(lengths.err)
              ELSE Ok([data_property EXCEPT !.num_records = Some(lengths.val[1])])
    ELSE Ok([data_property EXCEPT !.num_records = Some(1),
                                  !.num_columns = Some(1)])

\* mutation: the data type of the input is kept
CountNature_KeepsType(data_property) ==
    LET data_num_columns == get_num_columns(data_property) IN
    IF ~data_num_columns.ok THEN Err(data_num_columns.err)
    ELSE Ok([data_property EXCEPT
             !.nature = Some(NatureContinuous(
                 [i \in 1..data_num_columns.val |-> Some(0)],
                 [i \in 1..data_num_columns.val |-> None]))])

\* lines 44-49: a count is a non-negative integer
CountNature(data_property) ==
    LET data_num_columns == get_num_columns(data_property) IN
    IF ~data_num_columns.ok THEN Err(data_num_columns.err)
    ELSE Ok([data_property EXCEPT
             !.nature = Some(NatureContinuous(
                 [i \in 1..data_num_columns.val |-> Some(0)],
                 [i \in 1..data_num_columns.val |-> None])),
             !.data_type = "I64"])

Count_propagate_property(self, props) ==
    IF "data" \notin DOMAIN props THEN Err(<<"data: missing">>)
    ELSE LET array == prepend("data:", get_arraynd(props["data"])) IN
         IF ~array.ok THEN array
         ELSE LET resolved == CountResolveRecords(array.val) IN
              IF ~resolved.ok THEN resolved
              ELSE CountNature(
                       [resolved.val EXCEPT
                        !.aggregator = Some(CountSnapshot(self, resolved.val, props))])

---------------------------------------------------------------------------
(* impl Aggregator for proto::Count *)

\* proto::privacy_definition::Neighboring::from_i32
Neighboring_from_i32(i) ==
    CASE i = 0 -> Some("Substitute")
      [] i = 1 -> Some("AddRemove")
      [] OTHER -> None

NeighboringValues == {0, 1, 2}

KNorm(k) == [space |-> "KNorm", k |-> k]
SensitivitySpaces == {KNorm(k) : k \in 1..MaxK} \cup {[space |-> "Exponential", k |-> 0]}

\* line 135-136: length of the first column of the categories, when defined
CountCategoriesLength(data_property) ==
    LET categories == get_categories(data_property) IN
    IF ~categories.ok THEN None
    ELSE LET lengths == get_lengths_option(categories.val) IN
         IF Len(lengths) = 0 THEN None ELSE lengths[1]

\* mutation: the arm "one category, known N" is missing
CountSensitivity_NoOneCategoryArm(neighboring_type, categories_length, num_records) ==
    IF categories_length = None /\ IsSome(num_records) THEN 0
    ELSE IF categories_length = None \/ categories_length = Some(1) THEN
        (IF num_records = None \/ neighboring_type = "AddRemove" THEN 1 ELSE 2)
    ELSE IF categories_length = Some(2) /\ IsSome(num_records) THEN 1
    ELSE IF neighboring_type = "Substitute" THEN 2
    ELSE 1

\* mutation: the arm for two categories under Substitute takes any N
CountSensitivity_TwoAnyN(neighboring_type, categories_length, num_records) ==
    IF categories_length = None \/ categories_length = Some(1) THEN
        (IF IsSome(num_records) THEN 0 ELSE 1)
    ELSE IF neighboring_type = "Substitute" /\ categories_length = Some(2) THEN 1
    ELSE IF categories_length = Some(2) /\ IsSome(num_records) THEN 1
    ELSE IF neighboring_type = "Substitute" THEN 2
    ELSE 1

\* lines 141-165: SENSITIVITY DERIVATIONS, the match arms in source order
CountSensitivity(neighboring_type, categories_length, num_records) ==
    IF categories_length = None /\ IsSome(num_records) THEN 0
    ELSE IF categories_length = Some(1) /\ IsSome(num_records) THEN 0
    ELSE IF neighboring_type = "Substitute" /\ categories_length = None
            /\ num_records = None THEN 1
    ELSE IF neighboring_type = "Substitute" /\ categories_length = Some(1)
            /\ num_records = None THEN 1
    ELSE IF neighboring_type = "Substitute" /\ categories_length = Some(2)
            /\ IsSome(num_records) THEN 1
    ELSE IF neighboring_type = "AddRemove" /\ categories_length = None
            /\ num_records = None THEN 1
    ELSE IF neighboring_type = "AddRemove" /\ categories_length = Some(1)
            /\ num_records = None THEN 1
    ELSE IF neighboring_type = "AddRemove" /\ categories_length = Some(2)
            /\ IsSome(num_records) THEN 1
    ELSE IF neighboring_type = "Substitute" THEN 2
    ELSE 1

\* lines 167-175: one sensitivity per (category, column) cell, or a scalar
CountSensitivityArray(data_property, categories_length, sensitivity) ==
    IF IsSome(categories_length)
    THEN LET num_columns == get_num_columns(data_property) IN
         IF ~num_columns.ok THEN Err(num_columns.err)
         ELSE Ok([shape |-> <<Unwrap(categories_length), num_columns.val>>,
                  cells |-> [i \in 1..(Unwrap(categories_length) * num_columns.val)
                                |-> sensitivity]])
    ELSE Ok([shape |-> <<1>>, cells |-> <<sensitivity>>])

\* mutation: the data is not asserted to be non-aggregated
CountSensitivityInput_NoAssert(props) ==
    IF "data" \notin DOMAIN props THEN Err(<<"data: missing">>)
    ELSE prepend("data:", get_arraynd(props["data"]))

\* lines 119-123: the data must be an array that is not aggregated yet
CountSensitivityInput(props) ==
    IF "data" \notin DOMAIN props THEN Err(<<"data: missing">>)
    ELSE LET array == prepend("data:", get_arraynd(props["data"])) IN
         IF ~array.ok THEN array
         ELSE LET check == assert_is_not_aggregated(array.val) IN
              IF ~check.ok THEN Err(check.err) ELSE array

Count_compute_sensitivity(privacy_definition, props, sensitivity_type) ==
    LET data == CountSensitivityInput(props) IN
    IF ~data.ok THEN data
    ELSE IF sensitivity_type.space # "KNorm"
    THEN Err(<<"Count sensitivity is only implemented for KNorm">>)
    ELSE LET neighboring_type == Neighboring_from_i32(privacy_definition.neighboring) IN
         IF neighboring_type = None
         THEN Err(<<"neighboring definition must be either \"AddRemove\" or \"Substitute\"">>)
         ELSE LET categories_length == CountCategoriesLength(data.val)
                  num_records == data.val.num_records
              IN  CountSensitivityArray(data.val, categories_length,
                      CountSensitivity(Unwrap(neighboring_type), categories_length,
                                       num_records))

---------------------------------------------------------------------------
(* impl Expandable for proto::Count *)

\* proto::Component; `value` is the constant a literal node holds
Component(variant, arguments, batch) ==
    [variant |-> variant, arguments |-> arguments, omit |-> FALSE,
     batch |-> batch, value |-> None]

\* utilities::get_literal: the literal node of a value and its release
get_literal(value, batch) ==
    Ok(<<[variant |-> "Literal", arguments |-> EmptyMap, omit |-> TRUE,
          batch |-> batch, value |-> Some(value)],
         [value |-> value, public |-> TRUE]>>)

ComponentExpansion(computation_graph, release_map) ==
    [computation_graph |-> computation_graph, properties |-> EmptyMap,
     releases |-> release_map, traversal |-> <<>>]

\* a panic of the Rust thread: the call returns nothing
Panic(message) == Err(<<"thread panicked", message>>)
Panicked(r) == ~r.ok /\ Len(r.err) > 0 /\ r.err[1] = "thread panicked"

\* mutation: the current id is not incremented
CountNewId_NoIncrement(maximum_id) == maximum_id

\* lines 73, 79-80: the id of the literal node
CountNewId(maximum_id) == maximum_id + 1

\* lines 82-87: the categories of the first column, as a one-dimensional array
CountCategoriesValue(jagged) ==
    IF Len(jagged) = 0 THEN Panic("index out of bounds")
    ELSE IF jagged[1] = None
    THEN Panic("called Option::unwrap() on a None value")
    ELSE Ok(Unwrap(jagged[1]))

\* mutation: the argument is not inserted
CountRewire_Omitted(component, id_categories) == component

\* line 98: wire the `categories` argument to the literal node
CountRewire(component, id_categories) ==
    [component EXCEPT !.arguments = ("categories" :> id_categories) @@ @]

Count_expand_component(self, component, props, component_id, maximum_id) ==
    LET id_categories == CountNewId(maximum_id) IN
    IF "data" \notin DOMAIN props THEN Err(<<"data: missing">>)
    ELSE LET array == get_arraynd(props["data"]) IN
         IF ~array.ok THEN array
         ELSE LET categories == get_categories(array.val) IN
              IF ~categories.ok
              THEN Ok(ComponentExpansion(EmptyMap, EmptyMap))
              ELSE LET value == CountCategoriesValue(categories.val) IN
                   IF ~value.ok THEN value
                   ELSE LET literal == get_literal(value.val, component.batch) IN
                        IF ~literal.ok THEN literal
                        ELSE Ok(ComponentExpansion(
                                 (component_id :> CountRewire(component, id_categories))
                                     @@ (id_categories :> literal.val[1]),
                                 (id_categories :> literal.val[2])))

---------------------------------------------------------------------------
(* impl Component, Expandable, Aggregator for proto::component::Variant *)

PropagateVariants ==
    {"Bin", "Cast", "Clamp", "Constant", "Count", "Covariance", "Dpcount",
     "Dpcovariance", "Dphistogram", "Dpmaximum", "Dpmean", "Dpmedian", "Dpminimum",
     "Dpmomentraw", "Dpsum", "Dpvariance", "Filter", "Impute", "Index",
     "Kthrawsamplemoment", "Materialize", "Maximum", "Mean", "Exponentialmechanism",
     "Gaussianmechanism", "Laplacemechanism", "Simplegeometricmechanism", "Minimum",
     "Quantile", "Resize", "Rowmin", "Sum", "Variance",
     "Add", "Subtract", "Divide", "Multiply", "Power", "Log", "Modulo", "Remainder",
     "And", "Or", "Negate", "Equal", "Lessthan", "Greaterthan", "Negative"}

ExpandVariants ==
    {"Clamp", "Dpcount", "Dpcovariance", "Dphistogram", "Dpmaximum", "Dpmean",
     "Dpmedian", "Dpminimum", "Dpmomentraw", "Dpsum", "Dpvariance", "Impute",
     "Exponentialmechanism", "Gaussianmechanism", "Laplacemechanism",
     "Simplegeometricmechanism", "Resize"}

SensitivityVariants ==
    {"Count", "Covariance", "Kthrawsamplemoment", "Maximum", "Mean", "Minimum",
     "Quantile", "Sum", "Variance"}

\* a variant of the proto enum that none of the lists names
UnlistedVariant == "Unlisted"

Variants ==
    PropagateVariants \cup ExpandVariants \cup SensitivityVariants
        \cup {UnlistedVariant}

\* what the implementation of another component may answer: it is not part
\* of these files, so both a value and a failure are possible
DelegatedOutcomes ==
    {Ok([delegated |-> TRUE]), Err(<<"failure of the component">>)}

\* line 141
PropagateFallthrough(self) ==
    Err(<<"proto component ", self.variant, " is missing its Component trait">>)

\* mutation: an id is counted for the expansion that did not happen
ExpandFallthrough_NextId(self, maximum_id) == Ok(<<maximum_id + 1, EmptyMap>>)

\* lines 200-201: no expansion
ExpandFallthrough(self, maximum_id) == Ok(<<maximum_id, EmptyMap>>)

\* line 229
SensitivityFallthrough(self) == Err(<<"sensitivity is not implemented">>)

Variant_propagate_property(self, props, delegated) ==
    IF self.variant = "Count" THEN Count_propagate_property(self, props)
    ELSE IF self.variant \in PropagateVariants THEN delegated
    ELSE PropagateFallthrough(self)

Variant_expand_graph(self, component, props, component_id, maximum_id, delegated) ==
    IF self.variant \in ExpandVariants THEN delegated
    ELSE ExpandFallthrough(self, maximum_id)

Variant_compute_sensitivity(self, privacy_definition, props, space, delegated) ==
    IF self.variant = "Count"
    THEN Count_compute_sensitivity(privacy_definition, props, space)
    ELSE IF self.variant \in SensitivityVariants THEN delegated
    ELSE SensitivityFallthrough(self)

---------------------------------------------------------------------------
(* State: the input properties under analysis, the last call and its       *)
(* result, and the graph of the build session with its releases            *)

NoComponent == Component("", EmptyMap, 0)

NoCall ==
    [op |-> "none", variant |-> "", neighboring |-> 0, sensitivity_type |-> KNorm(1),
     component_id |-> 0, maximum_id |-> 0, component |-> NoComponent]

\* a data source and two Count nodes that read it
InitialGraph ==
    (1 :> Component("Materialize", EmptyMap, 0))
        @@ (2 :> Component("Count", ("data" :> 1), 0))
        @@ (3 :> Component("Count", ("data" :> 1), 0))

\* properties that differ in the categories only
GraphPropertiesSet ==
    {EmptyMap, ("data" :> HashmapProperties)} \cup
    {("data" :> [variant |-> "arraynd", num_records |-> None,
                 num_columns |-> Some(1), categories |-> c, nature |-> None,
                 data_type |-> "Str", aggregator |-> None]) : c \in CategoriesSet}

MaxOf(S) == CHOOSE x \in S : \A y \in S : y <= x

InitWith(propertiesSet) ==
    /\ properties \in propertiesSet
    /\ call = NoCall
    /\ result = Err(<<>>)
    /\ graph = InitialGraph
    /\ releases = EmptyMap
    /\ allocated = <<>>

---------------------------------------------------------------------------
(* Spec: the analysis calls on a Count node *)

Init == InitWith(NodePropertiesSet)

PropagateProperty ==
    /\ call' = [NoCall EXCEPT !.op = "propagate_property", !.variant = "Count"]
    /\ result' = Count_propagate_property(CountVariant, properties)
    /\ UNCHANGED <<properties, graph, releases, allocated>>

ComputeSensitivity ==
    \E n \in NeighboringValues, s \in SensitivitySpaces :
        /\ call' = [NoCall EXCEPT !.op = "compute_sensitivity", !.variant = "Count",
                                  !.neighboring = n, !.sensitivity_type = s]
        /\ result' = Count_compute_sensitivity([neighboring |-> n], properties, s)
        /\ UNCHANGED <<properties, graph, releases, allocated>>

Next == PropagateProperty \/ ComputeSensitivity

Spec == Init /\ [][Next]_vars

---------------------------------------------------------------------------
(* DispatchSpec: the calls on the Variant dispatcher *)

\* properties of a data argument: missing, or an array with unknown
\* categories or one column of MaxCatLen - 1 or MaxCatLen categories
DispatchPropertiesSet ==
    {EmptyMap} \cup
    {("data" :> [variant |-> "arraynd", num_records |-> None,
                 num_columns |-> Some(1), categories |-> c, nature |-> None,
                 data_type |-> "Str", aggregator |-> None]) :
        c \in {None} \cup {Some(<<Some(CategoryList(1, n))>>) :
                                n \in {MaxCatLen - 1, MaxCatLen}}}

DispatchInit == InitWith(DispatchPropertiesSet)

DispatchPropagate ==
    \E v \in Variants, d \in DelegatedOutcomes :
        /\ call' = [NoCall EXCEPT !.op = "Variant.propagate_property", !.variant = v]
        /\ result' = Variant_propagate_property([variant |-> v], properties, d)
        /\ UNCHANGED <<properties, graph, releases, allocated>>

DispatchExpand ==
    \E v \in Variants, d \in DelegatedOutcomes, c \in DOMAIN graph :
        /\ call' = [NoCall EXCEPT !.op = "Variant.expand_graph", !.variant = v,
                                  !.component_id = c,
                                  !.maximum_id = MaxOf(DOMAIN graph),
                                  !.component = Component(v, ("data" :> 1), 0)]
        /\ result' = Variant_expand_graph([variant |-> v],
                         Component(v, ("data" :> 1), 0), properties, c,
                         MaxOf(DOMAIN graph), d)
        /\ UNCHANGED <<properties, graph, releases, allocated>>

DispatchSensitivity ==
    \E v \in Variants, d \in DelegatedOutcomes,
       n \in NeighboringValues, s \in SensitivitySpaces :
        /\ call' = [NoCall EXCEPT !.op = "Variant.compute_sensitivity",
                                  !.variant = v, !.neighboring = n,
                                  !.sensitivity_type = s]
        /\ result' = Variant_compute_sensitivity([variant |-> v],
                         [neighboring |-> n], properties, s, d)
        /\ UNCHANGED <<properties, graph, releases, allocated>>

DispatchNext == DispatchPropagate \/ DispatchExpand \/ DispatchSensitivity

DispatchSpec == DispatchInit /\ [][DispatchNext]_vars

---------------------------------------------------------------------------
(* SessionSpec: the expansions of the Count nodes of one graph build      *)

SessionInit == InitWith(GraphPropertiesSet)

RECURSIVE Ascending(_)
Ascending(S) ==
    IF S = {} THEN <<>>
    ELSE LET least == CHOOSE x \in S : \A y \in S : x <= y
         IN  <<least>> \o Ascending(S \ {least})

\* the walker applies a patch: its nodes and releases replace or extend
\* those of the graph
ApplyPatch(map, patch_map) == patch_map @@ map

\* the ids a patch creates: those of its maps but the expanded node's own
CreatedIds(patch, component_id) ==
    (DOMAIN patch.computation_graph \cup DOMAIN patch.releases) \ {component_id}

ExpandComponent(component_id) ==
    LET maximum_id == MaxOf(DOMAIN graph)
        component == graph[component_id]
        expansion == Count_expand_component(CountVariant, component, properties,
                                            component_id, maximum_id)
    IN  /\ component.variant = "Count"
        /\ maximum_id < MaxId
        /\ call' = [NoCall EXCEPT !.op = "expand_component", !.variant = "Count",
                                  !.component_id = component_id,
                                  !.maximum_id = maximum_id,
                                  !.component = component]
        /\ result' = expansion
        /\ IF expansion.ok
           THEN /\ graph' = ApplyPatch(graph, expansion.val.computation_graph)
                /\ releases' = ApplyPatch(releases, expansion.val.releases)
                /\ allocated' = allocated \o
                                  Ascending(CreatedIds(expansion.val, component_id))
           ELSE UNCHANGED <<graph, releases, allocated>>
        /\ UNCHANGED properties

SessionNext == \E component_id \in DOMAIN graph : ExpandComponent(component_id)

SessionSpec == SessionInit /\ [][SessionNext]_vars

---------------------------------------------------------------------------
(* Properties of Count's sensitivity derivation, checked under Spec *)

Cells(value) == {value.cells[i] : i \in 1..Len(value.cells)}

SensitivityCall ==
    /\ call.op = "compute_sensitivity"
    /\ "data" \in DOMAIN properties

\* the categories of the data as the decision table buckets them: "none",
\* or the number of categories of the first column
CategoriesBucket == CountCategoriesLength(properties["data"])

NumRecordsKnown == IsSome(properties["data"].num_records)

NeighboringOfCall == Neighboring_from_i32(call.neighboring)

\* the rows of the decision table; 0 - 1 stands for a case no row covers
TableSensitivity(neighboring, bucket, known) ==
    IF bucket = None \/ bucket = Some(1) THEN (IF known THEN 0 ELSE 1)
    ELSE IF bucket = Some(2) /\ known THEN 1
    ELSE IF IsSome(bucket) /\ Unwrap(bucket) > 2
    THEN (IF neighboring = "Substitute" THEN 2 ELSE 1)
    ELSE 0 - 1

\* C1: whenever Count's compute_sensitivity returns a value under a KNorm
\* space, for any k, and the case is one of the rows of the decision table
\* (categories none or 1 with N known: 0; none or 1 with N unknown: 1;
\* 2 with N known: 1; more than 2: 2 under Substitute and 1 under
\* AddRemove, whether N is known or not), every cell of the value is the
\* sensitivity of that row.
C1_DecisionTable ==
    (SensitivityCall /\ result.ok) =>
        LET expected == TableSensitivity(Unwrap(NeighboringOfCall),
                                         CategoriesBucket, NumRecordsKnown)
        IN  expected # 0 - 1 => Cells(result.val) \subseteq {expected}

\* three categories under Substitute: each of the cells holds 2
C1_Witness ==
    /\ SensitivityCall /\ result.ok
    /\ call.sensitivity_type = KNorm(MaxK)
    /\ CategoriesBucket = Some(3)
    /\ NeighboringOfCall = Some("Substitute")
    /\ Cells(result.val) = {2}

\* the case of C2: one column of exactly two categories, N unknown,
\* Substitute, KNorm
TwoCategoriesUnknownN ==
    /\ SensitivityCall
    /\ call.sensitivity_type.space = "KNorm"
    /\ NeighboringOfCall = Some("Substitute")
    /\ properties["data"].variant = "arraynd"
    /\ IsSome(properties["data"].categories)
    /\ Len(Unwrap(properties["data"].categories)) = 1
    /\ CategoriesBucket = Some(2)
    /\ ~NumRecordsKnown

\* C2 as stated: with one column of two categories, N unknown and
\* Substitute, the sensitivity that compute_sensitivity yields is 1
C2_Original ==
    (TwoCategoriesUnknownN /\ result.ok) => Cells(result.val) \subseteq {1}

\* C2 amended: with one column of two categories, N unknown and Substitute,
\* every cell of the value compute_sensitivity yields is 2 (the arm for
\* two categories asks for a known N)
C2_Amended ==
    (TwoCategoriesUnknownN /\ result.ok) => Cells(result.val) \subseteq {2}

C2_Witness ==
    /\ TwoCategoriesUnknownN /\ result.ok
    /\ result.val.shape = <<2, 1>>
    /\ Cells(result.val) = {2}

\* C3: compute_sensitivity on data that carries aggregator provenance
\* fails, whatever the neighboring relation, the space, the categories
\* and num_records are
C3_AggregatedFails ==
    (SensitivityCall /\ IsSome(properties["data"].aggregator)) => ~result.ok

C3_Witness ==
    /\ SensitivityCall
    /\ IsSome(properties["data"].aggregator)
    /\ call.sensitivity_type.space = "KNorm"
    /\ NeighboringOfCall = Some("AddRemove")
    /\ result = Err(<<"aggregated data may not be manipulated">>)

---------------------------------------------------------------------------
(* Properties of Count's property propagation, checked under Spec *)

PropagateCall ==
    /\ call.op = "propagate_property"
    /\ "data" \in DOMAIN properties
    /\ properties["data"].variant = "arraynd"

\* the categories are known and are exactly one column that has a length
OneColumn(data) ==
    /\ IsSome(data.categories)
    /\ Len(Unwrap(data.categories)) = 1
    /\ IsSome(Unwrap(data.categories)[1])

ColumnLength(data) == Len(Unwrap(Unwrap(data.categories)[1]))

\* C8 as stated: with categories known as one column of length L the
\* propagation succeeds with num_records = L whatever the other fields
\* are; with known categories that are not one column it fails
C8_Original ==
    PropagateCall =>
        LET data == properties["data"] IN
        /\ OneColumn(data) =>
              result.ok /\ result.val.num_records = Some(ColumnLength(data))
        /\ (IsSome(data.categories) /\ Len(Unwrap(data.categories)) # 1) =>
              ~result.ok

\* C8 amended: with categories known as one column of length L, the
\* propagation succeeds exactly when num_columns is known and then the
\* output has num_records = L; it fails when num_columns is unknown, and
\* when the known categories are not one column
C8_Amended ==
    PropagateCall =>
        LET data == properties["data"] IN
        /\ (OneColumn(data) /\ IsSome(data.num_columns)) =>
              result.ok /\ result.val.num_records = Some(ColumnLength(data))
        /\ (OneColumn(data) /\ data.num_columns = None) => ~result.ok
        /\ (IsSome(data.categories) /\ Len(Unwrap(data.categories)) # 1) =>
              ~result.ok

C8_Witness ==
    /\ PropagateCall
    /\ OneColumn(properties["data"])
    /\ ColumnLength(properties["data"]) = 3
    /\ properties["data"].num_records = Some(1)
    /\ result.ok
    /\ result.val.num_records = Some(3)

\* C9: when the propagation succeeds the output carries aggregator
\* provenance, which holds the Count kind and the input NodeProperties as
\* they were passed, not the values rewritten for the output
C9_Snapshot ==
    (call.op = "propagate_property" /\ result.ok) =>
        /\ IsSome(result.val.aggregator)
        /\ Unwrap(result.val.aggregator).component = CountVariant
        /\ Unwrap(result.val.aggregator).properties = properties

\* the output differs from the input in each rewritten field, and the
\* snapshot holds the input
C9_Witness ==
    /\ PropagateCall /\ result.ok
    /\ properties["data"].num_records = Some(2)
    /\ properties["data"].num_columns = Some(2)
    /\ properties["data"].data_type = "Str"
    /\ properties["data"].aggregator = None
    /\ result.val.num_records = Some(1)
    /\ result.val.num_columns = Some(1)
    /\ Unwrap(result.val.aggregator).properties["data"].num_records = Some(2)

\* C10: with unknown categories the propagation succeeds and yields a
\* scalar count: num_records = 1, num_columns = 1, nature Continuous with
\* min 0 and max unknown for the one column, data_type I64
C10_ScalarCount ==
    (PropagateCall /\ properties["data"].categories = None) =>
        /\ result.ok
        /\ result.val.num_records = Some(1)
        /\ result.val.num_columns = Some(1)
        /\ result.val.nature = Some(NatureContinuous(<<Some(0)>>, <<None>>))
        /\ result.val.data_type = "I64"

C10_Witness ==
    /\ PropagateCall
    /\ properties["data"].categories = None
    /\ properties["data"].num_records = None
    /\ properties["data"].num_columns = None
    /\ properties["data"].data_type = "F64"
    /\ IsSome(properties["data"].nature)
    /\ result.ok
    /\ result.val.data_type = "I64"

---------------------------------------------------------------------------
(* Properties of the Variant dispatcher, checked under DispatchSpec *)

\* the call asks a capability of a variant that the dispatcher's list of
\* that capability does not name
Unregistered ==
    \/ call.op = "Variant.propagate_property" /\ call.variant \notin PropagateVariants
    \/ call.op = "Variant.expand_graph" /\ call.variant \notin ExpandVariants
    \/ call.op = "Variant.compute_sensitivity"
          /\ call.variant \notin SensitivityVariants

NamesKind(err, kind) == \E i \in 1..Len(err) : err[i] = kind

\* the message parts that name the capability a call asked for
CapabilityPhrases(op) ==
    CASE op = "Variant.propagate_property" -> {" is missing its Component trait"}
      [] op = "Variant.expand_graph" ->
            {" is missing its Expandable trait", "expansion is not implemented"}
      [] op = "Variant.compute_sensitivity" ->
            {" is missing its Aggregator trait", "sensitivity is not implemented"}
      [] OTHER -> {}

NamesCapability(err, op) == \E i \in 1..Len(err) : err[i] \in CapabilityPhrases(op)

---------------------------------------------------------------------------
(* Properties of Count's expansion, checked under SessionSpec *)

ExpandCall ==
    /\ call.op = "expand_component"
    /\ "data" \in DOMAIN properties
    /\ properties["data"].variant = "arraynd"

\* the categories are known and their first column is a list
FirstColumnKnown(data) ==
    /\ IsSome(data.categories)
    /\ Len(Unwrap(data.categories)) >= 1
    /\ IsSome(Unwrap(data.categories)[1])

FirstColumn(data) == Unwrap(Unwrap(data.categories)[1])

C6_Original ==
    (call.op = "expand_component" /\ result.ok
        /\ "categories" \in DOMAIN call.component.arguments) =>
        /\ CreatedIds(result.val, call.component_id) = {}
        /\ result.val.releases = EmptyMap
        /\ \A id \in DOMAIN result.val.computation_graph :
              result.val.computation_graph[id].arguments["categories"]
                  = call.component.arguments["categories"]

\* C7: in a session where each expansion is called with the node's own id
\* and the highest id of the graph, and each patch is applied before the
\* next call: every id of a patch's node and release maps is the expanded
\* node's id or above the maximum_id of the call, no created id is an id of
\* the graph before the call, and the created ids increase strictly over
\* the calls
C7_IdAllocation ==
    /\ [](/\ (call.op = "expand_component" /\ result.ok) =>
                \A id \in DOMAIN result.val.computation_graph
                            \cup DOMAIN result.val.releases :
                    id = call.component_id \/ id > call.maximum_id
          /\ \A i, j \in 1..Len(allocated) :
                i < j => allocated[i] < allocated[j]
          /\ DOMAIN graph = DOMAIN InitialGraph \cup
                              {allocated[i] : i \in 1..Len(allocated)})
    /\ [][(call'.op = "expand_component" /\ result'.ok) =>
             CreatedIds(result'.val, call'.component_id) \cap DOMAIN graph = {}]_vars

\* three expansions, of both Count nodes, created the ids 4, 5 and 6
C7_Witness ==
    /\ allocated = <<4, 5, 6>>
    /\ "categories" \in DOMAIN graph[2].arguments
    /\ "categories" \in DOMAIN graph[3].arguments
    /\ graph[2].arguments["categories"] # graph[3].arguments["categories"]

=============================================================================
